---- MODULE Spec2Model ----
(***************************************************************************)
(* A model of rusk's storage engine (src/src/engine.rs): the append-only   *)
(* command log data.log, the in-memory index rebuilt by replay, the        *)
(* write path, the read path and the compactor.  Files are sequences of    *)
(* bytes (0..255); entries are framed as the code frames them: a 4-byte    *)
(* big-endian length followed by the serde_json text of the Command.       *)
(***************************************************************************)
EXTENDS Integers, Sequences, FiniteSets, TLC

\* ------------------------------------------------------------------ bounds

\* Number of distinct keys ("a", "b", ...) the operations draw from.
NumKeys == 2
\* Number of distinct values; value i is the digit i repeated i times
\* ("1", "22", ...), so entries of different lengths occur.
NumValues == 2
\* Cap on the byte length of data.log and on current_pos in the write guards.
MaxLogLen == 150
\* The longest partial write modelled: a cut-short write or copy leaves at
\* most this many bytes of its output in the file (or, when the process dies
\* after the last byte, all of it).
MaxCut == 4
\* A run has at most one fault; this many calls of set, get, remove and
\* compact are modelled after it (opening and dropping a store are not
\* counted).
MaxAfterFault == 1

\* The compaction threshold of engine.rs:11 (1024 * 1024 bytes), scaled down
\* to the size of the smallest Set entry plus its Remove entry (35 + 26
\* bytes), so that dead space can reach it exactly and exceed it in a bounded
\* run.  The comparison that uses it is the code's (strictly greater).
COMPACTION_THRESHOLD == 61

\* ------------------------------------------------------------- data model

Keys == { <<96 + i>> : i \in 1..NumKeys }
Values == { [j \in 1..i |-> 48 + i] : i \in 1..NumValues }

\* enum Command { Set { key, value }, Remove { key } }
SetCmd(k, v) == [type |-> "Set", key |-> k, value |-> v]
RemoveCmd(k) == [type |-> "Remove", key |-> k]
Commands == { SetCmd(k, v) : k \in Keys, v \in Values } \cup { RemoveCmd(k) : k \in Keys }

\* A file that does not exist (no byte sequence holds -1).
NoFile == << -1 >>

\* serde_json::to_vec of a Command (externally tagged enum):
\*   {"Set":{"key":"<k>","value":"<v>"}}      {"Remove":{"key":"<k>"}}
\* written as ASCII codes.
JsonSetOpen == <<123, 34, 83, 101, 116, 34, 58, 123, 34, 107, 101, 121, 34, 58, 34>>
JsonValueField == <<34, 44, 34, 118, 97, 108, 117, 101, 34, 58, 34>>
JsonRemoveOpen == <<123, 34, 82, 101, 109, 111, 118, 101, 34, 58, 123, 34, 107, 101, 121, 34, 58, 34>>
JsonClose == <<34, 125, 125>>

Encode(cmd) ==
    IF cmd.type = "Set"
    THEN JsonSetOpen \o cmd.key \o JsonValueField \o cmd.value \o JsonClose
    ELSE JsonRemoveOpen \o cmd.key \o JsonClose

\* serde_json::from_slice::<Command>: the command whose text the bytes are,
\* or a Serde error when the bytes are the text of no command.
Decode(bytes) ==
    IF \E c \in Commands : Encode(c) = bytes
    THEN [ok |-> TRUE, cmd |-> CHOOSE c \in Commands : Encode(c) = bytes]
    ELSE [ok |-> FALSE]

\* u32::to_be_bytes and u32::from_be_bytes.
ToBeBytes(n) ==
    << (n \div 16777216) % 256, (n \div 65536) % 256, (n \div 256) % 256, n % 256 >>
FromBeBytes(b) == ((b[1] * 256 + b[2]) * 256 + b[3]) * 256 + b[4]

\* The bytes write_command appends for a command: header, then payload.
EntryBytes(cmd) == ToBeBytes(Len(Encode(cmd))) \o Encode(cmd)

\* seek(offset); read_exact(4 bytes); read_exact(data_len bytes) on a fresh
\* reader.  read_exact past the end of the file is an Io error.
ReadEntry(file, offset) ==
    IF offset + 4 > Len(file)
    THEN [res |-> "Io"]
    ELSE LET len_buf == SubSeq(file, offset + 1, offset + 4)
             data_len == FromBeBytes(len_buf)
         IN  IF offset + 4 + data_len > Len(file)
             THEN [res |-> "Io"]
             ELSE [res |-> "Ok", len_buf |-> len_buf, data_len |-> data_len,
                   data_buf |-> SubSeq(file, offset + 5, offset + 4 + data_len)]

\* HashMap insert / remove on the index (a function from the keys present).
EmptyIndex == << >>
\* (mutant: an insert that keeps the entry of a key already present)
IndexInsertKeepsOld(idx, k, pos) ==
    [x \in DOMAIN idx \cup {k} |-> IF x \in DOMAIN idx THEN idx[x] ELSE pos]
IndexInsert(idx, k, pos) ==
    [x \in DOMAIN idx \cup {k} |-> IF x = k THEN pos ELSE idx[x]]
\* (mutant: a remove that leaves the entry in place)
IndexRemoveKeepsEntry(idx, k) == idx
IndexRemove(idx, k) == [x \in DOMAIN idx \ {k} |-> idx[x]]

\* RuskStore::get on a store with index idx over the log file: the result
\* the caller sees.
GetOutcome(idx, file, k) ==
    IF k \notin DOMAIN idx
    THEN [res |-> "None"]
    ELSE LET r == ReadEntry(file, idx[k].offset)
         IN  IF r.res # "Ok" THEN [res |-> "Io"]
             ELSE LET d == Decode(r.data_buf)
                  IN  IF ~d.ok THEN [res |-> "Serde"]
                      ELSE IF d.cmd.type = "Set"
                           THEN [res |-> "Some", value |-> d.cmd.value]
                           ELSE [res |-> "UnexpectedCommand"]

\* RuskStore::replay_log from position pos: the loop of lines 77-114 and the
\* assignment of current_pos after it.
RECURSIVE ReplayFrom(_, _, _, _, _)
ReplayFrom(file, pos, idx, unc, previous_positions) ==
    IF pos >= Len(file) \/ pos + 4 > Len(file)
    THEN [res |-> "Ok", index |-> idx, current_pos |-> pos, uncompacted |-> unc]
    ELSE LET data_len == FromBeBytes(SubSeq(file, pos + 1, pos + 4))
             entry_len == 4 + data_len
         IN  IF pos + entry_len > Len(file)
             THEN [res |-> "Io"]
             ELSE LET d == Decode(SubSeq(file, pos + 5, pos + entry_len))
                  IN  IF ~d.ok THEN [res |-> "Serde"]
                      ELSE IF d.cmd.type = "Set"
                      THEN ReplayFrom(file, pos + entry_len,
                               IndexInsert(idx, d.cmd.key,
                                           [offset |-> pos, length |-> entry_len]),
                               IF d.cmd.key \in DOMAIN previous_positions
                               THEN unc + previous_positions[d.cmd.key] ELSE unc,
                               IndexInsert(previous_positions, d.cmd.key, entry_len))
                      ELSE ReplayFrom(file, pos + entry_len,
                               IndexRemove(idx, d.cmd.key),
                               (IF d.cmd.key \in DOMAIN idx
                                THEN unc + idx[d.cmd.key].length ELSE unc) + entry_len,
                               IndexRemove(previous_positions, d.cmd.key))

\* (mutant: a replay that reads Remove entries without dropping their keys)
RECURSIVE ReplayKeepingRemoved(_, _, _)
ReplayKeepingRemoved(file, pos, idx) ==
    IF pos + 4 > Len(file)
    THEN [res |-> "Ok", index |-> idx, current_pos |-> pos,
          uncompacted |-> ReplayFrom(file, 0, EmptyIndex, 0, EmptyIndex).uncompacted]
    ELSE LET entry_len == 4 + FromBeBytes(SubSeq(file, pos + 1, pos + 4))
             d == Decode(SubSeq(file, pos + 5, pos + entry_len))
         IN  ReplayKeepingRemoved(file, pos + entry_len,
                 IF d.cmd.type = "Set"
                 THEN IndexInsert(idx, d.cmd.key, [offset |-> pos, length |-> entry_len])
                 ELSE idx)
ReplayLogKeepsRemoved(file) ==
    IF ReplayFrom(file, 0, EmptyIndex, 0, EmptyIndex).res # "Ok"
    THEN ReplayFrom(file, 0, EmptyIndex, 0, EmptyIndex)
    ELSE ReplayKeepingRemoved(file, 0, EmptyIndex)
\* (mutant: a replay that keeps a removed key's Set in previous_positions, so
\* a later Set of the key counts the removed Set a second time)
RECURSIVE ReplayCountingTwice(_, _, _, _, _)
ReplayCountingTwice(file, pos, idx, unc, previous_positions) ==
    IF pos + 4 > Len(file)
    THEN [res |-> "Ok", index |-> idx, current_pos |-> pos, uncompacted |-> unc]
    ELSE LET entry_len == 4 + FromBeBytes(SubSeq(file, pos + 1, pos + 4))
             d == Decode(SubSeq(file, pos + 5, pos + entry_len))
         IN  IF d.cmd.type = "Set"
             THEN ReplayCountingTwice(file, pos + entry_len,
                      IndexInsert(idx, d.cmd.key, [offset |-> pos, length |-> entry_len]),
                      IF d.cmd.key \in DOMAIN previous_positions
                      THEN unc + previous_positions[d.cmd.key] ELSE unc,
                      IndexInsert(previous_positions, d.cmd.key, entry_len))
             ELSE ReplayCountingTwice(file, pos + entry_len,
                      IndexRemove(idx, d.cmd.key),
                      (IF d.cmd.key \in DOMAIN idx
                       THEN unc + idx[d.cmd.key].length ELSE unc) + entry_len,
                      previous_positions)
ReplayLogCountsTwice(file) ==
    IF ReplayFrom(file, 0, EmptyIndex, 0, EmptyIndex).res # "Ok"
    THEN ReplayFrom(file, 0, EmptyIndex, 0, EmptyIndex)
    ELSE ReplayCountingTwice(file, 0, EmptyIndex, 0, EmptyIndex)
\* (mutant: a replay that records each entry's offset after its header)
ReplayLogOffsetPastHeader(file) ==
    LET r == ReplayFrom(file, 0, EmptyIndex, 0, EmptyIndex)
    IN  IF r.res # "Ok" THEN r
        ELSE [r EXCEPT !.index = [k \in DOMAIN r.index |->
                           [offset |-> r.index[k].offset + 4,
                            length |-> r.index[k].length]]]
\* (mutant: a replay that fails when the file does not end at an entry boundary)
ReplayLogStrictTail(file) ==
    LET r == ReplayFrom(file, 0, EmptyIndex, 0, EmptyIndex)
    IN  IF r.res = "Ok" /\ r.current_pos # Len(file) THEN [res |-> "Io"] ELSE r
\* (mutant: a replay that swallows a read or decode error and starts empty)
ReplayLogSwallowsError(file) ==
    LET r == ReplayFrom(file, 0, EmptyIndex, 0, EmptyIndex)
    IN  IF r.res = "Ok" THEN r
        ELSE [res |-> "Ok", index |-> EmptyIndex, current_pos |-> 0, uncompacted |-> 0]
ReplayLog(file) == ReplayFrom(file, 0, EmptyIndex, 0, EmptyIndex)

\* ------------------------------------------------------------------ faults

\* Where an operation is cut short.  "none": it runs to its end.  "flush":
\* write_command's writes fail after n bytes of the writer's pending bytes
\* reached the file.  "create", "openlog", "copy", "rename", "reopen": compact
\* fails at lines 219-223, at 226, in the copy loop or the flush of
\* data.compact (n bytes of it reached the file), at 260, at 262.  With crash
\* the process dies at that point instead of returning the error.
\* n = AllBytes stands for the whole output.
NoFault == [at |-> "none", n |-> 0, crash |-> FALSE]
AllBytes == MaxLogLen + 1
IoFaults ==
    [at : {"flush", "copy"}, n : 0..MaxCut, crash : {FALSE}]
        \cup [at : {"create", "openlog", "rename", "reopen"}, n : {0}, crash : {FALSE}]
CrashFaults ==
    [at : {"flush", "copy"}, n : 0..MaxCut \cup {AllBytes}, crash : {TRUE}]
        \cup [at : {"create", "reopen"}, n : {0}, crash : {TRUE}]
Stopped(f) == IF f.crash THEN "Crash" ELSE "Io"

\* ------------------------------------------------------------------- state

VARIABLES
    log,           \* the bytes of data.log, or NoFile
    compactFile,   \* the bytes of data.compact, or NoFile
    opened,        \* a RuskStore value exists (open returned Ok, not dropped)
    index,         \* RuskStore.index: key -> [offset, length]
    current_pos,   \* RuskStore.current_pos
    uncompacted,   \* RuskStore.uncompacted
    wbuf,          \* bytes the BufWriter still holds after a failed flush
    writerOnLog,   \* the writer's file is the file now named data.log
    last,          \* the last operation, its arguments and what it returned
    kv,            \* history: the bindings made by the writes that returned Ok
    sinceFault,    \* history: operations since the fault of the run, it included
    everCompacted, \* history: a compaction has succeeded in this run
    closedView     \* history: what get returned for each key when the store
                   \* was last usable (kept while no store exists)

vars == << log, compactFile, opened, index, current_pos, uncompacted, wbuf,
           writerOnLog, last, kv, sinceFault, everCompacted, closedView >>

\* The store and its directory as one value, for the operators below.
Cur ==
    [log |-> log, compactFile |-> compactFile, index |-> index,
     current_pos |-> current_pos, uncompacted |-> uncompacted, wbuf |-> wbuf,
     writerOnLog |-> writerOnLog]

Prefix(s, n) == SubSeq(s, 1, IF n < Len(s) THEN n ELSE Len(s))
Suffix(s, n) == SubSeq(s, (IF n < Len(s) THEN n ELSE Len(s)) + 1, Len(s))

\* (mutant: a writer that truncates its file before it writes)
AppendedAfterTruncate(S, bytes) == IF S.writerOnLog THEN bytes ELSE S.log
\* The writer is opened in append mode: what it writes lands at the end of
\* its file, which is data.log unless a compaction renamed a new file over
\* that name and could not reopen the writer.
Appended(S, bytes) == IF S.writerOnLog THEN S.log \o bytes ELSE S.log

\* (mutant: a write_command that advances current_pos by the payload's
\* length only)
WriteCommandSkipsHeaderLength(S, cmd, f) ==
    LET data == Encode(cmd)
        pending == S.wbuf \o ToBeBytes(Len(data)) \o data
    IN  IF f.at = "flush"
        THEN [res |-> Stopped(f), fired |-> TRUE,
              valid |-> f.n < Len(pending) \/ (f.crash /\ f.n = AllBytes),
              S |-> [S EXCEPT !.log = Appended(S, Prefix(pending, f.n)),
                              !.wbuf = Suffix(pending, f.n)]]
        ELSE [res |-> "Ok", fired |-> FALSE, valid |-> TRUE,
              pos |-> [offset |-> S.current_pos, length |-> 4 + Len(data)],
              S |-> [S EXCEPT !.log = Appended(S, pending),
                              !.wbuf = << >>,
                              !.current_pos = S.current_pos + Len(data)]]

\* RuskStore::write_command.  fired: the fault f cut this call short.
WriteCommand(S, cmd, f) ==
    LET data == Encode(cmd)
        pending == S.wbuf \o ToBeBytes(Len(data)) \o data
        entry_len == 4 + Len(data)
    IN  IF f.at = "flush"
        THEN [res |-> Stopped(f), fired |-> TRUE,
              valid |-> f.n < Len(pending) \/ (f.crash /\ f.n = AllBytes),
              S |-> [S EXCEPT !.log = Appended(S, Prefix(pending, f.n)),
                              !.wbuf = Suffix(pending, f.n)]]
        ELSE [res |-> "Ok", fired |-> FALSE, valid |-> TRUE,
              pos |-> [offset |-> S.current_pos, length |-> entry_len],
              S |-> [S EXCEPT !.log = Appended(S, pending),
                              !.wbuf = << >>,
                              !.current_pos = S.current_pos + entry_len]]

\* The orders in which a HashMap may yield the keys of idx.
IterOrders(idx) ==
    { o \in [1..Cardinality(DOMAIN idx) -> DOMAIN idx] :
        \A i, j \in DOMAIN o : i # j => o[i] # o[j] }

\* (mutant: a copy loop that records each entry at its offset in the old log)
RECURSIVE CopyLiveKeepsOffsets(_, _, _, _, _, _)
CopyLiveKeepsOffsets(file, idx, order, i, out, new_index) ==
    IF i > Len(order)
    THEN [res |-> "Ok", out |-> out, new_index |-> new_index, new_pos |-> Len(out)]
    ELSE LET r == ReadEntry(file, idx[order[i]].offset)
         IN  IF r.res # "Ok"
             THEN [res |-> "Io", out |-> out]
             ELSE CopyLiveKeepsOffsets(file, idx, order, i + 1,
                           out \o r.len_buf \o r.data_buf,
                           IndexInsert(new_index, order[i], idx[order[i]]))

\* The copy loop of compact (lines 232-254) from the i-th key of the order:
\* out is what was written to data.compact so far.
RECURSIVE CopyLive(_, _, _, _, _, _)
CopyLive(file, idx, order, i, out, new_index) ==
    IF i > Len(order)
    THEN [res |-> "Ok", out |-> out, new_index |-> new_index, new_pos |-> Len(out)]
    ELSE LET r == ReadEntry(file, idx[order[i]].offset)
         IN  IF r.res # "Ok"
             THEN [res |-> "Io", out |-> out]
             ELSE CopyLive(file, idx, order, i + 1,
                           out \o r.len_buf \o r.data_buf,
                           IndexInsert(new_index, order[i],
                                       [offset |-> Len(out), length |-> 4 + r.data_len]))

\* (mutant: a compact that installs everything but the rebuilt index)
CompactKeepsOldIndex(S, order, f) ==
    LET c == CopyLive(S.log, S.index, order, 1, << >>, EmptyIndex)
    IN  IF f # NoFault \/ c.res # "Ok"
        THEN [res |-> "Io", fired |-> FALSE, valid |-> FALSE, S |-> S]
        ELSE [res |-> "Ok", fired |-> FALSE, valid |-> TRUE,
              S |-> [S EXCEPT !.log = c.out, !.compactFile = NoFile,
                              !.writerOnLog = TRUE, !.wbuf = << >>,
                              !.current_pos = c.new_pos, !.uncompacted = 0]]

\* (mutant: a compact that writes the copy straight into data.log)
CompactInPlace(S, order, f) ==
    LET c == CopyLive(S.log, S.index, order, 1, << >>, EmptyIndex)
    IN  IF c.res # "Ok" \/ f.at \notin {"none", "copy"}
        THEN [res |-> "Io", fired |-> FALSE, valid |-> FALSE, S |-> S]
        ELSE IF f.at = "copy"
        THEN [res |-> Stopped(f), fired |-> TRUE,
              valid |-> f.n < Len(c.out) \/ (f.crash /\ f.n = AllBytes),
              S |-> [S EXCEPT !.log = Prefix(c.out, f.n)]]
        ELSE [res |-> "Ok", fired |-> FALSE, valid |-> TRUE,
              S |-> [S EXCEPT !.log = c.out, !.wbuf = << >>,
                              !.index = c.new_index,
                              !.current_pos = c.new_pos,
                              !.uncompacted = 0]]

\* (mutant: a compact that installs its result without renaming data.compact)
CompactSkipsRename(S, order, f) ==
    LET c == CopyLive(S.log, S.index, order, 1, << >>, EmptyIndex)
    IN  IF f # NoFault \/ c.res # "Ok"
        THEN [res |-> "Io", fired |-> FALSE, valid |-> FALSE, S |-> S]
        ELSE [res |-> "Ok", fired |-> FALSE, valid |-> TRUE,
              S |-> [S EXCEPT !.compactFile = c.out, !.wbuf = << >>,
                              !.index = c.new_index,
                              !.current_pos = c.new_pos, !.uncompacted = 0]]

\* RuskStore::compact, with the index iterated in the given order.
Compact(S, order, f) ==
    IF f.at = "create"
    THEN [res |-> Stopped(f), fired |-> TRUE, valid |-> TRUE, S |-> S]
    ELSE IF f.at = "openlog"
    THEN [res |-> Stopped(f), fired |-> TRUE, valid |-> TRUE,
          S |-> [S EXCEPT !.compactFile = << >>]]
    ELSE LET c == CopyLive(S.log, S.index, order, 1, << >>, EmptyIndex)
         IN  IF c.res # "Ok"
             THEN \* a live entry could not be read; dropping compact_writer
                  \* flushes what was copied before it
                  [res |-> "Io", fired |-> FALSE, valid |-> TRUE,
                   S |-> [S EXCEPT !.compactFile = c.out]]
             ELSE IF f.at = "copy"
             THEN [res |-> Stopped(f), fired |-> TRUE,
                   valid |-> f.n < Len(c.out) \/ (f.crash /\ f.n = AllBytes),
                   S |-> [S EXCEPT !.compactFile = Prefix(c.out, f.n)]]
             ELSE IF f.at = "rename"
             THEN [res |-> Stopped(f), fired |-> TRUE, valid |-> TRUE,
                   S |-> [S EXCEPT !.compactFile = c.out]]
             ELSE IF f.at = "reopen"
             THEN [res |-> Stopped(f), fired |-> TRUE, valid |-> TRUE,
                   S |-> [S EXCEPT !.log = c.out, !.compactFile = NoFile,
                                   !.writerOnLog = FALSE]]
             ELSE [res |-> "Ok", fired |-> FALSE, valid |-> TRUE,
                   S |-> [S EXCEPT !.log = c.out, !.compactFile = NoFile,
                                   !.writerOnLog = TRUE, !.wbuf = << >>,
                                   !.index = c.new_index,
                                   !.current_pos = c.new_pos,
                                   !.uncompacted = 0]]

\* -------------------------------------------------------------- operations

\* What get returns for every key on the store S.
ViewOf(S) == [k \in Keys |-> GetOutcome(S.index, S.log, k)]
NoView == [k \in Keys |-> [res |-> "None"]]

\* The test set and remove make after their accounting (lines 135 and 186).
\* (mutant: a test that also compacts when uncompacted equals the threshold)
ShouldCompactAtThreshold(unc) == unc >= COMPACTION_THRESHOLD
ShouldCompact(unc) == unc > COMPACTION_THRESHOLD

\* RuskStore::set.  before: the store when compact was called, or when the
\* call began if it never got that far.
SetOutcome(S, k, v, order, f) ==
    LET w == WriteCommand(S, SetCmd(k, v), f)
    IN  IF w.res # "Ok"
        THEN [res |-> w.res, fired |-> w.fired, valid |-> w.valid, S |-> w.S,
              compacted |-> FALSE, called |-> FALSE, before |-> S]
        ELSE LET S1 == [w.S EXCEPT
                          !.index = IndexInsert(S.index, k, w.pos),
                          !.uncompacted = IF k \in DOMAIN S.index
                                          THEN S.uncompacted + S.index[k].length
                                          ELSE S.uncompacted]
             IN  IF ShouldCompact(S1.uncompacted)
                 THEN LET c == Compact(S1, order, f)
                      IN  [res |-> c.res, fired |-> c.fired, valid |-> c.valid,
                           S |-> c.S, compacted |-> c.res = "Ok",
                           called |-> TRUE, before |-> S1]
                 ELSE [res |-> "Ok", fired |-> FALSE, valid |-> TRUE, S |-> S1,
                       compacted |-> FALSE, called |-> FALSE, before |-> S1]

\* (mutant: a remove that appends its tombstone without looking the key up)
RemoveOutcomeNoLookup(S, k, order, f) ==
    LET w == WriteCommand(S, RemoveCmd(k), f)
    IN  IF w.res # "Ok"
        THEN [res |-> w.res, fired |-> w.fired, valid |-> w.valid, S |-> w.S,
              compacted |-> FALSE, called |-> FALSE, before |-> S]
        ELSE [res |-> IF k \in DOMAIN S.index THEN "Ok" ELSE "KeyNotFound",
              fired |-> FALSE, valid |-> TRUE,
              S |-> [w.S EXCEPT !.index = IndexRemove(S.index, k),
                                !.uncompacted = S.uncompacted + w.pos.length],
              compacted |-> FALSE, called |-> FALSE, before |-> S]

\* RuskStore::remove.
RemoveOutcome(S, k, order, f) ==
    IF k \notin DOMAIN S.index
    THEN [res |-> "KeyNotFound", fired |-> FALSE, valid |-> TRUE, S |-> S,
          compacted |-> FALSE, called |-> FALSE, before |-> S]
    ELSE LET w == WriteCommand(S, RemoveCmd(k), f)
         IN  IF w.res # "Ok"
             THEN [res |-> w.res, fired |-> w.fired, valid |-> w.valid, S |-> w.S,
                   compacted |-> FALSE, called |-> FALSE, before |-> S]
             ELSE LET S1 == [w.S EXCEPT
                               !.index = IndexRemove(S.index, k),
                               !.uncompacted = S.uncompacted + S.index[k].length
                                                 + w.pos.length]
                  IN  IF ShouldCompact(S1.uncompacted)
                      THEN LET c == Compact(S1, order, f)
                           IN  [res |-> c.res, fired |-> c.fired, valid |-> c.valid,
                                S |-> c.S, compacted |-> c.res = "Ok",
                           called |-> TRUE, before |-> S1]
                      ELSE [res |-> "Ok", fired |-> FALSE, valid |-> TRUE, S |-> S1,
                            compacted |-> FALSE, called |-> FALSE, before |-> S1]

\* (mutant: a compact call that zeroes uncompacted whether or not it succeeds)
CompactOutcomeResetsOnError(S, order, f) ==
    LET c == Compact(S, order, f)
    IN  [res |-> c.res, fired |-> c.fired, valid |-> c.valid,
         S |-> [c.S EXCEPT !.uncompacted = 0],
         compacted |-> c.res = "Ok", called |-> TRUE, before |-> S]

\* An explicit call of RuskStore::compact.
CompactOutcome(S, order, f) ==
    LET c == Compact(S, order, f)
    IN  [res |-> c.res, fired |-> c.fired, valid |-> c.valid, S |-> c.S,
         compacted |-> c.res = "Ok", called |-> TRUE, before |-> S]

\* The index a set or remove hands to the compaction it triggers.
IndexAfterSet(k) ==
    IndexInsert(index, k, [offset |-> current_pos, length |-> 0])
IndexAfterRemove(k) == IndexRemove(index, k)

\* The iteration orders an operation can meet: those of the index when it
\* calls compact, and none to choose from when it does not.
OrdersMet(called, idx) == IF called THEN IterOrders(idx) ELSE { << >> }

\* The operation ran as f says, and stayed within the model's cap.
Allowed(out, f) ==
    /\ out.valid
    /\ f = NoFault \/ out.fired
    /\ out.S.current_pos <= MaxLogLen
    /\ Len(out.S.log) <= MaxLogLen
    /\ Len(out.S.log) + Len(out.S.wbuf) <= MaxLogLen

LastRec(op, k, v, out, f) ==
    [op |-> op, key |-> k, value |-> v, res |-> out.res, at |-> f.at,
     n |-> f.n, compacted |-> out.compacted]

\* The variables after an operation with outcome out.  A crash leaves the
\* directory as the operation left it and no store.
Install(out) ==
    /\ log' = out.S.log
    /\ compactFile' = out.S.compactFile
    /\ IF out.res = "Crash"
       THEN /\ opened' = FALSE
            /\ index' = EmptyIndex
            /\ current_pos' = 0
            /\ uncompacted' = 0
            /\ wbuf' = << >>
            /\ writerOnLog' = TRUE
            /\ closedView' = ViewOf(out.before)
       ELSE /\ opened' = TRUE
            /\ index' = out.S.index
            /\ current_pos' = out.S.current_pos
            /\ uncompacted' = out.S.uncompacted
            /\ wbuf' = out.S.wbuf
            /\ writerOnLog' = out.S.writerOnLog
            /\ closedView' = NoView

\* Counts the operation toward the bound on a run's length after a fault.
Tick(f) ==
    /\ sinceFault <= MaxAfterFault
    /\ f # NoFault => sinceFault = 0
    /\ sinceFault' = IF sinceFault = 0 /\ f = NoFault THEN 0 ELSE sinceFault + 1

Init ==
    /\ log = NoFile
    /\ compactFile = NoFile
    /\ opened = FALSE
    /\ index = EmptyIndex
    /\ current_pos = 0
    /\ uncompacted = 0
    /\ wbuf = << >>
    /\ writerOnLog = TRUE
    /\ last = [op |-> "init", key |-> << >>, value |-> << >>, res |-> "Ok",
               at |-> "none", n |-> 0, compacted |-> FALSE]
    /\ kv = EmptyIndex
    /\ sinceFault = 0
    /\ everCompacted = FALSE
    /\ closedView = NoView

\* RuskStore::open: create data.log if it is missing, then replay it.
Open ==
    /\ ~opened
    /\ LET file == IF log = NoFile THEN << >> ELSE log
           r == ReplayLog(file)
       IN  /\ log' = file
           /\ last' = [op |-> "open", key |-> << >>, value |-> << >>,
                       res |-> r.res, at |-> "none", n |-> 0, compacted |-> FALSE]
           /\ IF r.res = "Ok"
              THEN /\ opened' = TRUE
                   /\ index' = r.index
                   /\ current_pos' = r.current_pos
                   /\ uncompacted' = r.uncompacted
                   /\ closedView' = NoView
              ELSE UNCHANGED << opened, index, current_pos, uncompacted, closedView >>
    /\ UNCHANGED << compactFile, wbuf, writerOnLog, kv, sinceFault, everCompacted >>

\* The store is dropped: the BufWriter's drop writes what it still holds, as
\* far as the file takes it (m bytes), and ignores the error.
Close ==
    /\ opened
    /\ \E m \in 0..Len(wbuf) :
         log' = Appended(Cur, Prefix(wbuf, m))
    /\ opened' = FALSE
    /\ index' = EmptyIndex
    /\ current_pos' = 0
    /\ uncompacted' = 0
    /\ wbuf' = << >>
    /\ writerOnLog' = TRUE
    /\ closedView' = ViewOf(Cur)
    /\ last' = [op |-> "close", key |-> << >>, value |-> << >>, res |-> "Ok",
                at |-> "none", n |-> 0, compacted |-> FALSE]
    /\ UNCHANGED << compactFile, kv, sinceFault, everCompacted >>

DoSet(k, v, f) ==
    /\ opened
    /\ Tick(f)
    /\ \E order \in OrdersMet(SetOutcome(Cur, k, v, << >>, f).called, IndexAfterSet(k)) :
         \E out \in { SetOutcome(Cur, k, v, order, f) } :
             /\ Allowed(out, f)
             /\ Install(out)
             /\ last' = LastRec("set", k, v, out, f)
             /\ kv' = (IF out.res = "Ok" THEN IndexInsert(kv, k, v) ELSE kv)
             /\ everCompacted' = (everCompacted \/ out.compacted)

DoGet(k) ==
    /\ opened
    /\ Tick(NoFault)
    /\ LET g == GetOutcome(index, log, k)
       IN  last' = [op |-> "get", key |-> k,
                    value |-> IF g.res = "Some" THEN g.value ELSE << >>,
                    res |-> g.res, at |-> "none", n |-> 0, compacted |-> FALSE]
    /\ UNCHANGED << log, compactFile, opened, index, current_pos, uncompacted,
                    wbuf, writerOnLog, kv, everCompacted, closedView >>

DoRemove(k, f) ==
    /\ opened
    /\ Tick(f)
    /\ \E order \in OrdersMet(RemoveOutcome(Cur, k, << >>, f).called, IndexAfterRemove(k)) :
         \E out \in { RemoveOutcome(Cur, k, order, f) } :
             /\ Allowed(out, f)
             /\ Install(out)
             /\ last' = LastRec("remove", k, << >>, out, f)
             /\ kv' = (IF out.res = "Ok" THEN IndexRemove(kv, k) ELSE kv)
             /\ everCompacted' = (everCompacted \/ out.compacted)

DoCompact(f) ==
    /\ opened
    /\ Tick(f)
    /\ \E order \in IterOrders(index) :
         \E out \in { CompactOutcome(Cur, order, f) } :
             /\ Allowed(out, f)
             /\ Install(out)
             /\ last' = LastRec("compact", << >>, << >>, out, f)
             /\ kv' = kv
             /\ everCompacted' = (everCompacted \/ out.compacted)

\* The operations when nothing fails.
Next ==
    \/ Open
    \/ Close
    \/ \E k \in Keys, v \in Values : DoSet(k, v, NoFault)
    \/ \E k \in Keys : DoGet(k)
    \/ \E k \in Keys : DoRemove(k, NoFault)
    \/ DoCompact(NoFault)

Spec == Init /\ [][Next]_vars

\* The operations when a write or a compaction may return an I/O error.
NextIo ==
    \/ Next
    \/ \E k \in Keys, v \in Values, f \in IoFaults : DoSet(k, v, f)
    \/ \E k \in Keys, f \in IoFaults : DoRemove(k, f)
    \/ \E f \in IoFaults : DoCompact(f)

SpecIo == Init /\ [][NextIo]_vars

\* The operations when the process may die inside a write or a compaction.
NextCrash ==
    \/ Next
    \/ \E k \in Keys, v \in Values, f \in CrashFaults : DoSet(k, v, f)
    \/ \E k \in Keys, f \in CrashFaults : DoRemove(k, f)
    \/ \E f \in CrashFaults : DoCompact(f)

SpecCrash == Init /\ [][NextCrash]_vars

\* ------------------------------------------------------------------ claims

\* C1: whenever set(k, v) has returned Ok on a store reached by successful
\* operations, get(k) on the resulting store returns Some(v) -- also when the
\* set ran the automatic compaction before it returned.
C1_SetThenGet ==
    (opened /\ last.op = "set" /\ last.res = "Ok") =>
        GetOutcome(index, log, last.key) = [res |-> "Some", value |-> last.value]

\* A set that overwrote a key with another value, triggered the compaction
\* and returned Ok.
C1_Witness ==
    /\ opened /\ last.op = "set" /\ last.res = "Ok" /\ last.compacted
    /\ last.value = <<50, 50>>
    /\ Cardinality(DOMAIN index) = 2
    /\ GetOutcome(index, log, last.key) = [res |-> "Some", value |-> <<50, 50>>]

\* C2: whenever remove(k) has returned Ok (so k was in the index), in any
\* store state an I/O error may have led to, get(k) returns None and a
\* second remove(k) returns KeyNotFound -- also when the remove ran the
\* automatic compaction.
C2_RemoveThenAbsent ==
    (opened /\ last.op = "remove" /\ last.res = "Ok") =>
        /\ GetOutcome(index, log, last.key) = [res |-> "None"]
        /\ \A order \in IterOrders(IndexAfterRemove(last.key)), f \in IoFaults \cup {NoFault} :
             RemoveOutcome(Cur, last.key, order, f).res = "KeyNotFound"

\* A remove that triggered the compaction and returned Ok while another key
\* stayed live.
C2_Witness ==
    /\ opened /\ last.op = "remove" /\ last.res = "Ok" /\ last.compacted
    /\ DOMAIN index # {}
    /\ GetOutcome(index, log, last.key) = [res |-> "None"]

\* What get returns for k on the store as it is now.
GetNow(k) == GetOutcome(index, log, k)
\* What the bindings of the successful writes say get should return.
KvLookup(k) ==
    IF k \in DOMAIN kv THEN [res |-> "Some", value |-> kv[k]] ELSE [res |-> "None"]

\* C3: when a store that ran successful set/remove/compact operations from
\* an empty directory is dropped and open is called again, open succeeds and
\* get returns for every key what it returned on the store that was dropped;
\* the rebuilt index has the keys that store resolved.
C3_ReopenSameView ==
    [][ (~opened /\ last'.op = "open") =>
          /\ last'.res = "Ok" /\ opened'
          /\ \A k \in Keys : GetOutcome(index', log', k) = closedView[k]
          /\ DOMAIN index' = { k \in Keys : closedView[k].res = "Some" } ]_vars

\* A reopened store whose log holds dead entries (an overwrite or a remove)
\* besides a live key.
C3_Witness ==
    /\ opened /\ last.op = "open" /\ last.res = "Ok"
    /\ uncompacted > 0 /\ DOMAIN index # {}
    /\ GetNow(<<97>>) = [res |-> "Some", value |-> <<50, 50>>]

\* C4: in every run of set/get/remove with successful compact calls inserted
\* anywhere (explicit or automatic), each get returns what the bindings of
\* the writes before it say (the value last set, or None when never set or
\* removed since), and each remove returns KeyNotFound exactly when the key
\* has no binding: the results are those of the run without the compact
\* calls, which the bindings do not depend on.
C4_CompactTransparent ==
    [][ /\ (opened /\ last'.op = "get") =>
             [res |-> last'.res, value |-> last'.value]
               = [res |-> KvLookup(last'.key).res,
                  value |-> IF last'.key \in DOMAIN kv THEN kv[last'.key] ELSE << >>]
        /\ (opened /\ last'.op = "remove") =>
             /\ last'.res \in {"Ok", "KeyNotFound"}
             /\ (last'.res = "KeyNotFound") <=> (last'.key \notin DOMAIN kv) ]_vars

\* A get that returned a value on a store that was compacted earlier and has
\* since been written to again.
C4_Witness ==
    /\ opened /\ everCompacted /\ uncompacted > 0
    /\ last.op = "get" /\ last.res = "Some" /\ last.value = <<50, 50>>

\* C5: when the process dies inside compact -- before data.compact is
\* created, with data.compact partly or wholly written, or after the rename
\* -- the next open succeeds and get returns for every key what it returned
\* when compact was called.
C5_CrashInCompact ==
    [][ (~opened /\ last.res = "Crash" /\ last.at \in {"create", "copy", "reopen"}
           /\ last'.op = "open") =>
          /\ last'.res = "Ok" /\ opened'
          /\ \A k \in Keys : GetOutcome(index', log', k) = closedView[k] ]_vars

\* A store opened after a crash that left a partly written data.compact
\* behind, with a live key and dead entries still in data.log.
C5_Witness ==
    /\ opened /\ last.op = "open" /\ last.res = "Ok" /\ sinceFault = 1
    /\ compactFile # NoFile /\ Len(compactFile) > 0
    /\ DOMAIN index # {} /\ uncompacted > 0

\* C6: remove(k) of a key that is not in the index returns KeyNotFound and
\* changes neither the files nor the store's fields.
C6_RemoveMissing ==
    [][ (opened /\ last'.op = "remove" /\ last'.key \notin DOMAIN index) =>
          /\ last'.res = "KeyNotFound"
          /\ UNCHANGED << log, compactFile, index, current_pos, uncompacted,
                          wbuf, writerOnLog, opened >> ]_vars

\* A remove of a missing key on a store whose log and index are not empty.
C6_Witness ==
    /\ opened /\ last.op = "remove" /\ last.res = "KeyNotFound"
    /\ Len(log) > 0 /\ DOMAIN index # {} /\ last.key \notin DOMAIN index

\* What the index holds for k: its position, or nothing.
Binding(idx, k) == IF k \in DOMAIN idx THEN << idx[k] >> ELSE << >>

\* C7 (as claimed): whenever set(k, v) or remove(k) returns an error, the
\* index holds for k what it held before the call.
C7_ErrorLeavesIndex ==
    [][ (opened /\ last'.op \in {"set", "remove"} /\ last'.res \notin {"Ok", "Crash"}) =>
          Binding(index', last'.key) = Binding(index, last'.key) ]_vars

\* C8 (as claimed): when the process died inside a write and left a proper,
\* non-empty prefix of the entry at the end of data.log, the next open
\* succeeds, get returns for every key what it returned before the write,
\* and replay stops at the end of the whole entries.
C8_AnyPrefixReconciles ==
    [][ (~opened /\ last.res = "Crash" /\ last.at = "flush" /\ last.n \in 1..MaxCut
           /\ last'.op = "open") =>
          /\ last'.res = "Ok" /\ opened'
          /\ \A k \in Keys : GetOutcome(index', log', k) = closedView[k]
          /\ current_pos' = Len(log) - last.n ]_vars

\* C8 (amended): a tail of 1 to 3 bytes (part of the header) is reconciled as
\* claimed, and the rebuilt index is the one replay builds from the whole
\* entries alone; a tail that holds the whole header and part of the payload
\* makes the next open fail with an Io error and yield no store.
C8_HeaderPrefixReconciles ==
    [][ (~opened /\ last.res = "Crash" /\ last.at = "flush" /\ last.n \in 1..MaxCut
           /\ last'.op = "open") =>
          IF last.n < 4
          THEN /\ last'.res = "Ok" /\ opened'
               /\ \A k \in Keys : GetOutcome(index', log', k) = closedView[k]
               /\ DOMAIN index' = { k \in Keys : closedView[k].res = "Some" }
               /\ current_pos' = Len(log) - last.n
               /\ index' = ReplayLog(Prefix(log, Len(log) - last.n)).index
          ELSE /\ last'.res = "Io" /\ ~opened' ]_vars

\* A store opened on a log that ends in a cut-short header after whole
\* entries, some of them dead.
C8_Witness ==
    /\ opened /\ last.op = "open" /\ last.res = "Ok" /\ sinceFault = 1
    /\ current_pos > 0 /\ Len(log) = current_pos + 3
    /\ DOMAIN index # {} /\ uncompacted > 0

\* Walking the file entry by entry from position pos: some entry has its
\* whole header but a payload that is cut short or is the text of no command.
RECURSIVE HasBrokenEntry(_, _)
HasBrokenEntry(file, pos) ==
    IF pos + 4 > Len(file) THEN FALSE
    ELSE LET n == FromBeBytes(SubSeq(file, pos + 1, pos + 4))
         IN  IF pos + 4 + n > Len(file) THEN TRUE
             ELSE IF \A c \in Commands : Encode(c) # SubSeq(file, pos + 5, pos + 4 + n)
             THEN TRUE
             ELSE HasBrokenEntry(file, pos + 4 + n)

\* C9: open on a data.log in which an entry has its whole header but a short
\* or undecodable payload returns Io or Serde, yields no store and leaves
\* the file as it is.
C9_BrokenEntryFailsOpen ==
    [][ (~opened /\ last'.op = "open" /\ log # NoFile /\ HasBrokenEntry(log, 0)) =>
          /\ last'.res \in {"Io", "Serde"}
          /\ ~opened'
          /\ log' = log ]_vars

\* An open that failed with Serde: the payload of an entry is not the text
\* of a command.
C9_Witness ==
    /\ ~opened /\ last.op = "open" /\ last.res = "Serde"
    /\ HasBrokenEntry(log, 0)

\* An open that failed with Io: the payload of the last entry is cut short.
C9_WitnessIo ==
    /\ ~opened /\ last.op = "open" /\ last.res = "Io"
    /\ HasBrokenEntry(log, 0)

\* The bytes of the entry the index entry pos points at in file.
Slice(file, pos) == SubSeq(file, pos.offset + 1, pos.offset + pos.length)

\* The Set entries of the keys in the given order, one after the other, with
\* the values the successful writes bound them to.
RECURSIVE LiveImage(_, _)
LiveImage(order, i) ==
    IF i > Len(order) THEN << >>
    ELSE EntryBytes(SetCmd(order[i], kv[order[i]])) \o LiveImage(order, i + 1)

RECURSIVE SumLengths(_, _)
SumLengths(idx, keys) ==
    IF keys = {} THEN 0
    ELSE LET k == CHOOSE x \in keys : TRUE
         IN  idx[k].length + SumLengths(idx, keys \ {k})

\* data.log is exactly one Set entry per key of the index, in some order;
\* every index entry points at its key's entry; the file's size is the sum
\* of the live entries' lengths and current_pos equals it.
CompactedShape ==
    /\ \E order \in IterOrders(index) : log = LiveImage(order, 1)
    /\ \A k \in DOMAIN index : Slice(log, index[k]) = EntryBytes(SetCmd(k, kv[k]))
    /\ Len(log) = SumLengths(index, DOMAIN index)
    /\ current_pos = Len(log)
    /\ uncompacted = 0

\* C10: right after a successful compaction (explicit, or run by a set or a
\* remove) data.log is exactly one Set entry per key of the index and
\* nothing else (so no Remove entry), its size is the sum of the live
\* entries' lengths and current_pos equals it; an explicit compact copies
\* each live entry byte for byte from the old log.
C10_CompactedLog ==
    [][ (opened /\ last'.res = "Ok" /\ last'.compacted) =>
          /\ CompactedShape'
          /\ last'.op = "compact" =>
               /\ DOMAIN index' = DOMAIN index
               /\ \A k \in DOMAIN index :
                    /\ Slice(log', index'[k]) = Slice(log, index[k])
                    /\ index'[k].length = index[k].length ]_vars

\* A compaction that dropped dead entries and kept two live keys with
\* entries of different lengths.
C10_Witness ==
    /\ opened /\ last.op = "compact" /\ last.res = "Ok"
    /\ Cardinality(DOMAIN index) = 2
    /\ \E k1, k2 \in DOMAIN index : index[k1].length # index[k2].length
    /\ kv # << >>

\* What set(k, ..) or remove(k) makes of uncompacted by its own accounting,
\* before it tests the threshold (read in the state the call starts from).
Accounted(op, k) ==
    IF op = "set"
    THEN uncompacted + (IF k \in DOMAIN index THEN index[k].length ELSE 0)
    ELSE uncompacted + index[k].length + Len(EntryBytes(RemoveCmd(k)))

\* C11: a set or remove that returns Ok has run the compaction exactly when
\* uncompacted after its own accounting is strictly greater than the
\* threshold; it leaves uncompacted at most the threshold, and when it did
\* not compact uncompacted is the accounted value.
C11_CompactsAboveThreshold ==
    [][ (opened /\ last'.op \in {"set", "remove"} /\ last'.res = "Ok") =>
          /\ last'.compacted <=> (Accounted(last'.op, last'.key) > COMPACTION_THRESHOLD)
          /\ uncompacted' <= COMPACTION_THRESHOLD
          /\ ~last'.compacted => uncompacted' = Accounted(last'.op, last'.key)
          /\ last'.compacted => uncompacted' = 0 ]_vars

\* A remove that left uncompacted exactly at the threshold and did not
\* compact.
C11_Witness ==
    /\ opened /\ last.op = "remove" /\ last.res = "Ok" /\ ~last.compacted
    /\ uncompacted = COMPACTION_THRESHOLD

\* C12 (as claimed): whenever open, set, get, remove or compact has returned
\* (with Ok or with an error), an open after a crash in compact included, the
\* directory holds no data.compact.
C12_NoCompactFileAtRest ==
    (last.op \in {"open", "set", "get", "remove", "compact"} /\ last.res # "Crash") =>
        compactFile = NoFile

\* C13 (as claimed): on a store that open built from a data.log ending in 1
\* to 3 bytes of a cut-short header (current_pos is the last entry boundary,
\* the file is 1 to 3 bytes longer), a set(k, v) that returns Ok records the
\* entry at the offset where its bytes lie in the file, and get(k) then
\* returns Some(v).
C13_AppendAfterCutHeader ==
    [][ (opened /\ writerOnLog /\ wbuf = << >> /\ Len(log) - current_pos \in 1..3
           /\ last'.op = "set" /\ last'.res = "Ok" /\ ~last'.compacted) =>
          /\ Slice(log', index'[last'.key]) = EntryBytes(SetCmd(last'.key, last'.value))
          /\ GetOutcome(index', log', last'.key)
               = [res |-> "Some", value |-> last'.value] ]_vars

\* C14: in every state reached from an empty directory by successful open,
\* set, get, remove, compact and drop/reopen, while a store exists
\* current_pos equals the byte length of data.log (and the writer holds no
\* unwritten bytes).
C14_PosIsFileLength ==
    opened => (log # NoFile /\ current_pos = Len(log) /\ wbuf = << >>)

\* A store that was compacted, written to again and then reopened, whose log
\* is not empty.
C14_Witness ==
    /\ opened /\ everCompacted /\ last.op = "open" /\ last.res = "Ok"
    /\ uncompacted > 0 /\ current_pos = Len(log) /\ current_pos > 35

\* C15: in every state reachable by successful operations and drop/reopen,
\* for every key k of the index the bytes of data.log at the recorded offset
\* are one whole entry of the recorded length (a header holding length - 4,
\* then that many bytes) whose payload decodes to a Set command for k; so
\* get(k) returns a value and never UnexpectedCommand (nor Io, nor Serde).
C15_IndexPointsAtSet ==
    opened =>
      \A k \in DOMAIN index :
        /\ index[k].offset + index[k].length <= Len(log)
        /\ LET r == ReadEntry(log, index[k].offset)
           IN  /\ r.res = "Ok"
               /\ 4 + r.data_len = index[k].length
               /\ Decode(r.data_buf).ok
               /\ Decode(r.data_buf).cmd.type = "Set"
               /\ Decode(r.data_buf).cmd.key = k
        /\ GetOutcome(index, log, k).res = "Some"

\* A compacted store with two live keys at different offsets, one of them
\* written after the compaction.
C15_Witness ==
    /\ opened /\ everCompacted /\ Cardinality(DOMAIN index) = 2
    /\ \E k \in DOMAIN index : index[k].offset > 71
    /\ last.op = "set" /\ ~last.compacted

\* C16: in every state reachable by successful operations and drop/reopen,
\* the keys of the index are exactly the keys whose latest successful write
\* is a Set: a key removed last, or never written, is absent -- across
\* compaction and replay as well.
C16_IndexKeysAreLiveKeys ==
    opened => DOMAIN index = DOMAIN kv

\* A reopened store whose log holds a Remove entry for a key that stays
\* absent, next to a live key.
C16_Witness ==
    /\ opened /\ last.op = "open" /\ last.res = "Ok"
    /\ Cardinality(DOMAIN index) = 1 /\ DOMAIN index = DOMAIN kv
    /\ \E k \in Keys \ DOMAIN index :
       \E p \in 0..(Len(log) - Len(EntryBytes(RemoveCmd(k)))) :
         SubSeq(log, p + 1, p + Len(EntryBytes(RemoveCmd(k)))) = EntryBytes(RemoveCmd(k))

\* The total length of the entries of file from position pos on that no
\* index entry points at: overwritten Sets, removed Sets and Removes.
RECURSIVE DeadBytes(_, _)
DeadBytes(file, pos) ==
    IF pos + 4 > Len(file) THEN 0
    ELSE LET entry_len == 4 + FromBeBytes(SubSeq(file, pos + 1, pos + 4))
             live == \E k \in DOMAIN index : index[k].offset = pos
         IN  (IF live THEN 0 ELSE entry_len) + DeadBytes(file, pos + entry_len)

\* C17: in every state reachable by successful set, remove, compact and
\* open, uncompacted equals the total length of the dead entries of data.log,
\* each counted once; replaying the log as it is now gives the same value as
\* the live accounting; and uncompacted is at most current_pos.
C17_UncompactedIsDeadBytes ==
    opened =>
      /\ uncompacted = DeadBytes(log, 0)
      /\ ReplayLog(log).res = "Ok"
      /\ ReplayLog(log).uncompacted = uncompacted
      /\ uncompacted <= current_pos

\* A reopened store whose log holds a Set of a key, its Remove and a later
\* Set of the same key: the removed Set and the Remove are dead, once each.
C17_Witness ==
    /\ opened /\ last.op = "open" /\ last.res = "Ok"
    /\ <<97>> \in DOMAIN index /\ index[<<97>>].offset = 61
    /\ uncompacted = 61
    /\ SubSeq(log, 36, 61) = EntryBytes(RemoveCmd(<<97>>))

\* The command a set or remove call writes.
WrittenCmd(op, k, v) == IF op = "set" THEN SetCmd(k, v) ELSE RemoveCmd(k)

\* C18: a set or remove that returns Ok without compacting leaves the bytes
\* already in data.log as they are and appends exactly one entry, of length
\* 4 + payload size; the position a set records is (current_pos before the
\* call, that length); current_pos grows by that length.  No step other
\* than a successful compaction shortens or rewrites the log.
C18_AppendOnly ==
    [][ /\ (opened /\ last'.op \in {"set", "remove"} /\ last'.res = "Ok"
              /\ ~last'.compacted) =>
             LET cmd == WrittenCmd(last'.op, last'.key, last'.value)
                 entry_len == 4 + Len(Encode(cmd))
             IN  /\ Len(log') = Len(log) + entry_len
                 /\ SubSeq(log', 1, Len(log)) = log
                 /\ SubSeq(log', Len(log) + 1, Len(log')) = EntryBytes(cmd)
                 /\ current_pos' = current_pos + entry_len
                 /\ last'.op = "set" =>
                      index'[last'.key] = [offset |-> current_pos, length |-> entry_len]
        /\ (log # NoFile /\ ~last'.compacted) =>
             /\ Len(log') >= Len(log)
             /\ SubSeq(log', 1, Len(log)) = log ]_vars

\* A remove that appended its entry, without compacting, to the log of a
\* store that was compacted earlier.
C18_Witness ==
    /\ opened /\ everCompacted /\ last.op = "remove" /\ last.res = "Ok"
    /\ ~last.compacted /\ Len(log) > 61
    /\ SubSeq(log, Len(log) - 25, Len(log)) = EntryBytes(RemoveCmd(last.key))

\* C19: while a store exists uncompacted decreases only in a step that
\* completes a compaction, which leaves it 0: get leaves it unchanged, a set
\* or remove that does not complete a compaction leaves it equal or larger,
\* and a compact that returns an error leaves it at its previous value.
C19_UncompactedMonotone ==
    [][ (opened /\ opened') =>
          /\ last'.compacted => (last'.res = "Ok" /\ uncompacted' = 0)
          /\ ~last'.compacted => uncompacted' >= uncompacted
          /\ last'.op = "get" => uncompacted' = uncompacted
          /\ (last'.op = "compact" /\ last'.res # "Ok") => uncompacted' = uncompacted
          /\ uncompacted' < uncompacted => last'.compacted ]_vars

\* A compact that returned an error after its rename had replaced the log,
\* on a store with dead bytes counted.
C19_Witness ==
    /\ opened /\ last.op = "compact" /\ last.res = "Io" /\ last.at = "reopen"
    /\ uncompacted > 0

\* C20 (as claimed): when compact() returns an error, at whichever of its
\* steps, every key of the index still resolves through get to the value it
\* had before the call (and the other keys still resolve to None), and a
\* set(k, v) that then returns Ok is followed by get(k) = Some(v).
C20_CompactErrorKeepsStore ==
    [][ /\ (opened /\ last'.op = "compact" /\ last'.res = "Io") =>
             /\ DOMAIN index' = DOMAIN index
             /\ \A k \in Keys : GetOutcome(index', log', k) = GetOutcome(index, log, k)
        /\ (opened /\ last.op = "compact" /\ last.res = "Io"
              /\ last'.op = "set" /\ last'.res = "Ok") =>
             GetOutcome(index', log', last'.key)
               = [res |-> "Some", value |-> last'.value] ]_vars

====
